---- MODULE Spec2Model ----
(***************************************************************************)
(* Model of the items resource of app-prototyping-kit: the mock API client *)
(* (lib/api.ts: mockItems and api.items.list/get/create/update/delete      *)
(* behind setTimeout delays) and the React Query hooks over it             *)
(* (hooks/useItems.ts), and the two pages that use the hooks               *)
(* (pages/ItemsPage.tsx, pages/CreateItemPage.tsx).  Time is counted in    *)
(* units of 100 ms.                                                        *)
(***************************************************************************)
EXTENDS Integers, Sequences, FiniteSets, TLC

VARIABLES
    mockItems,  \* lib/api.ts `let mockItems: Item[]`: the collection
    pending,    \* api calls suspended in `await delay(ms)`
    nextSeq,    \* number of api calls issued so far (issue order)
    last,       \* the api call that settled last: its arguments and its outcome
    queries,    \* the query cache: key -> entry (data, invalidated, current fetch)
    observers,  \* keys with a mounted useQuery observer
    micro,      \* promise reactions of settled hook mutations not yet run (microtask queue)
    mres,       \* what mutateAsync delivered last to its caller
    log,        \* the creates, updates and deletes that have settled, in the order they settled
    route,      \* the page the router renders
    itemToDelete, \* ItemsPage `useState<Item | null>`: the record the dialog is open for
    form,       \* CreateItemPage useForm: field values, formState.errors, formState.isSubmitted
    handlers,   \* page handlers suspended in `await ...mutateAsync(...)`
    toasts,     \* ToastProvider `toasts`
    sidebarOpen, \* stores/uiStore.ts `sidebarOpen`
    joined      \* fetches that a further reader of the key joined while they were in flight

vars == <<mockItems, pending, nextSeq, last, queries, observers, micro, mres,
          log, route, itemToDelete, form, handlers, toasts, sidebarOpen, joined>>

pageVars == <<route, itemToDelete, form, handlers, toasts>>
sideVars == <<sidebarOpen, joined>>

apiVars == <<mockItems, pending, nextSeq, last>>
cacheVars == <<queries, observers, micro, mres>>

(***************************************************************************)
(* Bounds of the model                                                     *)
(***************************************************************************)
MaxCalls == 3      \* api calls a caller issues in one behaviour
MaxLiveCalls == 2  \* the same, in the behaviours checked for calls that never settle
MaxToasts == 3     \* toasts shown at one time

(***************************************************************************)
(* lib/api.ts                                                              *)
(***************************************************************************)
NotFound == "Item not found"

\* the ms arguments of `await delay(ms)`, in units of 100 ms
delay(op) ==
    CASE op = "list" -> 5
      [] op = "get" -> 3
      [] op = "create" -> 6
      [] op = "update" -> 5
      [] op = "delete" -> 4

Ops == {"list", "get", "create", "update", "delete"}

\* the seed of the collection; createdAt is the time the module is loaded
SeedItems ==
    << [id |-> "1", name |-> "First Item", description |-> "This is a sample item",
        status |-> "active", createdAt |-> 0],
       [id |-> "2", name |-> "Second Item", description |-> "Another sample item",
        status |-> "inactive", createdAt |-> 0] >>

\* values Math.random().toString(36).substring(7) can take: any short
\* string of digits and lower-case letters; nothing excludes a repeat
RandomIds == {"a", "b"}

\* values new Date() can take when create runs (the wall clock; the seed has 0)
Clock == {1}

\* identifiers callers pass to get
GetIds == {"1"}

\* identifiers callers pass to update
UpdateIds == {"2"}

\* identifiers callers pass to delete
DeleteIds == {"1", "2"}

\* Omit<Item, 'id' | 'createdAt'> inputs of create
CreateInputs ==
    { [name |-> "Widget", description |-> "A widget for tests", status |-> "active"] }

\* Partial<Item> inputs of update
Partials ==
    { [name |-> "Renamed", createdAt |-> 77],
      [id |-> "1"] }

\* the inputs the pages pass to the mutation hooks
FormInputs ==
    { [name |-> "Widget", description |-> "A widget for tests", status |-> "active"] }

EditInputs == { [name |-> "Renamed", createdAt |-> 77] }

NoId == "-"
NoData == [none |-> TRUE]

\* ids of the records of a collection
IdsOf(items) == { items[i].id : i \in 1..Len(items) }

\* Array.prototype.findIndex((item) => item.id === id): first match, or -1
findIndex(items, id) ==
    IF \E i \in 1..Len(items) : items[i].id = id
    THEN CHOOSE i \in 1..Len(items) :
             /\ items[i].id = id
             /\ \A j \in 1..(i - 1) : items[j].id # id
    ELSE -1

\* { ...a, ...b }: the fields of b override those of a
spread(a, b) ==
    [f \in (DOMAIN a) \cup (DOMAIN b) |-> IF f \in DOMAIN b THEN b[f] ELSE a[f]]

\* get that rejects on an empty collection whatever the id, with its own error
GetOpEmptyError(items, id) ==
    LET index == findIndex(items, id) IN
    IF items = <<>>
    THEN [ok |-> FALSE, error |-> "No items", items |-> items]
    ELSE IF index = -1
         THEN [ok |-> FALSE, error |-> NotFound, items |-> items]
         ELSE [ok |-> TRUE, value |-> items[index], items |-> items]

\* api.items.get after its delay: the first record with the id, or the error
GetOp(items, id) ==
    LET index == findIndex(items, id) IN
    IF index = -1
    THEN [ok |-> FALSE, error |-> NotFound, items |-> items]
    ELSE [ok |-> TRUE, value |-> items[index], items |-> items]

\* api.items.list after its delay
ListOp(items) == [ok |-> TRUE, value |-> items, items |-> items]

\* the record create builds: { ...data, id: <random>, createdAt: <now> }
newItem(data, rnd, ts) == spread(data, [id |-> rnd, createdAt |-> ts])

\* create that puts the new record first: [newItem, ...mockItems]
CreateOpPrepend(items, data, rnd, ts) ==
    [ok |-> TRUE, value |-> newItem(data, rnd, ts),
     items |-> <<newItem(data, rnd, ts)>> \o items]

\* api.items.create after its delay: mockItems = [...mockItems, newItem]
CreateOp(items, data, rnd, ts) ==
    [ok |-> TRUE, value |-> newItem(data, rnd, ts),
     items |-> Append(items, newItem(data, rnd, ts))]

\* update that inserts the record when the id is absent, instead of throwing
UpdateOpUpsert(items, id, data) ==
    LET index == findIndex(items, id) IN
    IF index = -1
    THEN [ok |-> TRUE, value |-> spread([id |-> id], data),
          items |-> Append(items, spread([id |-> id], data))]
    ELSE LET merged == spread(items[index], data) IN
         [ok |-> TRUE, value |-> merged,
          items |-> [items EXCEPT ![index] = merged]]

\* update that writes before it checks: the absent id is stored, then the error thrown
UpdateOpWriteFirst(items, id, data) ==
    LET index == findIndex(items, id) IN
    IF index = -1
    THEN [ok |-> FALSE, error |-> NotFound,
          items |-> Append(items, spread([id |-> id], data))]
    ELSE LET merged == spread(items[index], data) IN
         [ok |-> TRUE, value |-> merged,
          items |-> [items EXCEPT ![index] = merged]]

\* api.items.update after its delay
UpdateOp(items, id, data) ==
    LET index == findIndex(items, id) IN
    IF index = -1
    THEN [ok |-> FALSE, error |-> NotFound, items |-> items]
    ELSE LET merged == spread(items[index], data) IN
         [ok |-> TRUE, value |-> merged,
          items |-> [items EXCEPT ![index] = merged]]

\* delete with the filter inverted: item.id === id
DeleteOpInverted(items, id) ==
    LET keep(item) == item.id = id IN
    [ok |-> TRUE, value |-> "void", items |-> SelectSeq(items, keep)]

\* delete that drops the result of filter: mockItems is not assigned
DeleteOpNoAssign(items, id) ==
    [ok |-> TRUE, value |-> "void", items |-> items]

\* api.items.delete after its delay: mockItems.filter((item) => item.id !== id)
DeleteOp(items, id) ==
    LET keep(item) == item.id # id IN
    [ok |-> TRUE, value |-> "void", items |-> SelectSeq(items, keep)]

\* create that works on the array as it was when the module was loaded:
\* what creates and deletes completed meanwhile is lost
\* an update that goes by the existence of the record when it was issued:
\* the record deleted since then is stored again
ApplyUpdateCheckedAtIssue(c, items, rnd, ts) ==
    CASE c.op = "list" -> ListOp(items)
      [] c.op = "get" -> GetOp(items, c.id)
      [] c.op = "create" -> CreateOp(items, c.data, rnd, ts)
      [] c.op = "update" ->
           IF c.existed THEN UpdateOpUpsert(items, c.id, c.data)
           ELSE UpdateOp(items, c.id, c.data)
      [] c.op = "delete" -> DeleteOp(items, c.id)

ApplyCreateOnSeed(c, items, rnd, ts) ==
    CASE c.op = "list" -> ListOp(items)
      [] c.op = "get" -> GetOp(items, c.id)
      [] c.op = "create" -> CreateOp(SeedItems, c.data, rnd, ts)
      [] c.op = "update" -> UpdateOp(items, c.id, c.data)
      [] c.op = "delete" -> DeleteOp(items, c.id)

\* what a call does to the collection when its delay has elapsed
Apply(c, items, rnd, ts) ==
    CASE c.op = "list" -> ListOp(items)
      [] c.op = "get" -> GetOp(items, c.id)
      [] c.op = "create" -> CreateOp(items, c.data, rnd, ts)
      [] c.op = "update" -> UpdateOp(items, c.id, c.data)
      [] c.op = "delete" -> DeleteOp(items, c.id)

(***************************************************************************)
(* Timers: `delay` is setTimeout.  Each pending call carries the time left *)
(* on its timer.  A timer fires when no time is left; of two timers due,   *)
(* one started earlier with a delay not longer than the other's fires      *)
(* first.                                                                  *)
(***************************************************************************)
\* a timer that fires only when no other call is pending
DueIfAlone(c) == c.left = 0 /\ pending = {c}

\* timers that fire in any order once no time is left
DueAnyOrder(c) == c.left = 0

Due(c) ==
    /\ c.left = 0
    /\ \A d \in pending : ~(d.seq < c.seq /\ delay(d.op) <= delay(c.op) /\ d.left = 0)

NoneDue == \A c \in pending : c.left > 0

\* the call record of the api call with issue number seq, issued while the
\* calls of pend are pending and lst is the call that settled last
MkCall(seq, pend, lst, op, id, data, src) ==
    [seq |-> seq, op |-> op, id |-> id, data |-> data,
     left |-> delay(op), src |-> src,
     \* a delete of the same id is pending when the call is issued
     duringDelete |-> \E d \in pend : d.op = "delete" /\ d.id = id,
     \* the call is issued right after a delete of the same id has completed
     afterDelete |-> lst.op = "delete" /\ lst.id = id,
     \* no create or update has completed since the call was issued
     quiet |-> TRUE,
     \* an update is issued for an id that a record has at that time
     existed |-> op = "update" /\ id \in IdsOf(mockItems)]

\* the call record of an api call issued now
Call(op, id, data, src) == MkCall(nextSeq + 1, pending, last, op, id, data, src)

NoLast ==
    [op |-> "none", id |-> NoId, data |-> NoData, src |-> "none",
     ok |-> TRUE, duringDelete |-> FALSE, afterDelete |-> FALSE, quiet |-> TRUE,
     existed |-> FALSE]

\* the record of a call that settles with result r
Settled(c, r) ==
    [op |-> c.op, id |-> c.id, data |-> c.data, src |-> c.src,
     ok |-> r.ok, duringDelete |-> c.duringDelete,
     afterDelete |-> c.afterDelete, quiet |-> c.quiet, existed |-> c.existed]
    @@ (IF r.ok THEN [value |-> r.value] ELSE [error |-> r.error])

\* pending calls after call c has settled
Rest(c) ==
    { IF c.op \in {"create", "update"} THEN [d EXCEPT !.quiet = FALSE] ELSE d :
        d \in pending \ {c} }

(***************************************************************************)
(* hooks/useItems.ts: the query cache                                      *)
(***************************************************************************)
\* ITEMS_QUERY_KEY and [...ITEMS_QUERY_KEY, id]
ITEMS_QUERY_KEY == <<"items">>
ItemKey(id) == ITEMS_QUERY_KEY \o <<id>>

\* identifiers pages pass to useItem
QueryIds == {"2"}

\* the keys of the cache, in the order invalidateQueries goes through them
KeyOrder == <<ITEMS_QUERY_KEY, ItemKey("2")>>
Keys == { KeyOrder[i] : i \in 1..Len(KeyOrder) }

\* a key that no useQuery has read yet
NoEntry ==
    [exists |-> FALSE, hasData |-> FALSE, data |-> <<>>, aliased |-> FALSE,
     invalidated |-> FALSE, fetch |-> 0, error |-> FALSE]

\* invalidateQueries({ queryKey, exact: true }): only the key itself matches
MatchesExact(queryKey, k) == k = queryKey

\* invalidateQueries({ queryKey }) matches every key that starts with queryKey
Matches(queryKey, k) ==
    /\ Len(queryKey) <= Len(k)
    /\ \A i \in 1..Len(queryKey) : k[i] = queryKey[i]

\* the api call a query function makes: useItems -> api.items.list,
\* useItem(id) -> api.items.get(id)
queryFn(st, k, lst) ==
    IF k = ITEMS_QUERY_KEY
    THEN MkCall(st.n + 1, st.p, lst, "list", NoId, NoData, "query")
    ELSE MkCall(st.n + 1, st.p, lst, "get", k[2], NoData, "query")

\* the key a query call fetches for
KeyOf(c) == IF c.op = "list" THEN ITEMS_QUERY_KEY ELSE ItemKey(c.id)

\* a fetch of key k starts: its query function is called
StartFetch(st, k, lst) ==
    [q |-> [st.q EXCEPT ![k].exists = TRUE, ![k].fetch = st.n + 1],
     p |-> st.p \cup {queryFn(st, k, lst)},
     n |-> st.n + 1]

\* a read that starts a request of its own whatever is in flight
FetchNoDedupe(st, k, cancelRefetch, lst) == StartFetch(st, k, lst)

\* a read of key k asks for a fetch: a fetch in flight is shared, except
\* that a refetch after an invalidation replaces a fetch in flight when the
\* entry has data (the replaced call still runs, its result is dropped)
Fetch(st, k, cancelRefetch, lst) ==
    IF st.q[k].fetch # 0 /\ ~(st.q[k].hasData /\ cancelRefetch)
    THEN st
    ELSE StartFetch(st, k, lst)

\* useItems() / useItem(id) mounts: the entry is fetched when it has no data
\* or is stale (invalidated, or older than the staleTime of the QueryClient)
useQueryMount(st, k, staleByTime, lst) ==
    IF ~st.q[k].hasData \/ st.q[k].invalidated \/ staleByTime
    THEN Fetch(st, k, FALSE, lst)
    ELSE st

\* invalidation of one entry: marked stale, refetched when it has an observer
InvalidateOne(st, k, obs, lst) ==
    IF ~st.q[k].exists
    THEN st
    ELSE LET marked == [st EXCEPT !.q[k].invalidated = TRUE] IN
         IF k \in obs THEN Fetch(marked, k, TRUE, lst) ELSE marked

RECURSIVE InvalidateFrom(_, _, _, _, _)
InvalidateFrom(st, queryKey, i, obs, lst) ==
    IF i > Len(KeyOrder)
    THEN st
    ELSE InvalidateFrom(
             IF Matches(queryKey, KeyOrder[i])
             THEN InvalidateOne(st, KeyOrder[i], obs, lst)
             ELSE st,
             queryKey, i + 1, obs, lst)

\* queryClient.invalidateQueries({ queryKey })
invalidateQueries(st, queryKey, obs, lst) == InvalidateFrom(st, queryKey, 1, obs, lst)

\* useCreateItem without its onSuccess: nothing is invalidated
useCreateItemNoInvalidate(st, m, obs, lst) == st

\* useCreateItem: onSuccess
useCreateItem(st, m, obs, lst) ==
    IF m.ok THEN invalidateQueries(st, ITEMS_QUERY_KEY, obs, lst) ELSE st

\* useUpdateItem that invalidates in onSettled: also when the update failed
useUpdateItemOnSettled(st, m, obs, lst) ==
    invalidateQueries(invalidateQueries(st, ITEMS_QUERY_KEY, obs, lst),
                      ItemKey(m.id), obs, lst)

\* useUpdateItem that invalidates in onError instead of onSuccess
useUpdateItemOnError(st, m, obs, lst) ==
    IF ~m.ok
    THEN invalidateQueries(invalidateQueries(st, ITEMS_QUERY_KEY, obs, lst),
                           ItemKey(m.id), obs, lst)
    ELSE st

\* useUpdateItem: onSuccess
useUpdateItem(st, m, obs, lst) ==
    IF m.ok
    THEN invalidateQueries(invalidateQueries(st, ITEMS_QUERY_KEY, obs, lst),
                           ItemKey(m.id), obs, lst)
    ELSE st

\* useDeleteItem: onSuccess
useDeleteItem(st, m, obs, lst) ==
    IF m.ok THEN invalidateQueries(st, ITEMS_QUERY_KEY, obs, lst) ELSE st

\* the callbacks of the mutation hook that issued m
SettleMutation(st, m, obs, lst) ==
    CASE m.op = "create" -> useCreateItem(st, m, obs, lst)
      [] m.op = "update" -> useUpdateItem(st, m, obs, lst)
      [] m.op = "delete" -> useDeleteItem(st, m, obs, lst)

\* api.items.list returns the array mockItems itself, and the cache keeps
\* it: update writes into that array (mockItems[index] = ...), create and
\* delete assign a new array to mockItems
Aliased(q, c, r) ==
    CASE c.op = "update" /\ r.ok ->
           [k \in DOMAIN q |-> IF q[k].aliased THEN [q[k] EXCEPT !.data = r.items] ELSE q[k]]
      [] c.op \in {"create", "delete"} ->
           [k \in DOMAIN q |-> [q[k] EXCEPT !.aliased = FALSE]]
      [] OTHER -> q

\* the entry of key k after the query call c has settled with r: the result
\* of the current fetch is stored, that of a replaced fetch is dropped
QuerySettled(e, k, c, r) ==
    IF e.fetch # c.seq
    THEN e
    ELSE IF r.ok
         THEN [e EXCEPT !.hasData = TRUE, !.data = r.value,
                        !.aliased = (k = ITEMS_QUERY_KEY /\ (~e.hasData \/ e.aliased)),
                        !.invalidated = FALSE, !.fetch = 0, !.error = FALSE]
         ELSE [e EXCEPT !.fetch = 0, !.error = TRUE]

(***************************************************************************)
(* pages/ItemsPage.tsx, pages/CreateItemPage.tsx: state of the pages       *)
(***************************************************************************)
\* useState<Item | null>(null)
NoItem == [none |-> TRUE]

\* no message for a field
NoError == ""

\* useForm after mount: an input nobody typed in holds '', status has its
\* default, no error, not submitted
defaultValues ==
    [name |-> "", description |-> "", status |-> "active",
     errors |-> [name |-> NoError, description |-> NoError, status |-> NoError],
     isSubmitted |-> FALSE]

(***************************************************************************)
(* Direct use of the api client                                            *)
(***************************************************************************)
Init ==
    /\ mockItems = SeedItems
    /\ pending = {}
    /\ nextSeq = 0
    /\ last = NoLast
    /\ queries = [k \in Keys |-> NoEntry]
    /\ observers = {}
    /\ micro = <<>>
    /\ mres = [ok |-> TRUE, op |-> "none"]
    /\ log = <<>>
    /\ route = "home"
    /\ itemToDelete = NoItem
    /\ form = defaultValues
    /\ handlers = {}
    /\ toasts = <<>>
    /\ sidebarOpen = TRUE
    /\ joined = {}

Issue(c) ==
    /\ micro = <<>>
    /\ nextSeq < MaxCalls
    /\ pending' = pending \cup {c}
    /\ nextSeq' = nextSeq + 1
    /\ UNCHANGED <<mockItems, last>>

CallList == Issue(Call("list", NoId, NoData, "direct")) /\ UNCHANGED cacheVars /\ UNCHANGED <<log, pageVars, sideVars>>

CallGet == \E id \in GetIds : Issue(Call("get", id, NoData, "direct")) /\ UNCHANGED cacheVars /\ UNCHANGED <<log, pageVars, sideVars>>

CallCreate ==
    \E data \in CreateInputs : Issue(Call("create", NoId, data, "direct")) /\ UNCHANGED cacheVars /\ UNCHANGED <<log, pageVars, sideVars>>

CallUpdate ==
    \E id \in UpdateIds, data \in Partials :
        Issue(Call("update", id, data, "direct")) /\ UNCHANGED cacheVars /\ UNCHANGED <<log, pageVars, sideVars>>

CallDelete == \E id \in DeleteIds : Issue(Call("delete", id, NoData, "direct")) /\ UNCHANGED cacheVars /\ UNCHANGED <<log, pageVars, sideVars>>

\* the timer of call c fires: the rest of the async function runs
Resume(c, rnd, ts) ==
    LET r == Apply(c, mockItems, rnd, ts) IN
    /\ mockItems' = r.items
    /\ pending' = Rest(c)
    /\ last' = Settled(c, r)
    /\ UNCHANGED nextSeq

\* the log once call c has settled: a create, update or delete that
\* resolved is appended with its arguments and the id and time it drew
Logged(c, rnd, ts) ==
    IF c.op \in {"create", "update", "delete"} /\ Apply(c, mockItems, rnd, ts).ok
    THEN Append(log, [op |-> c.op, id |-> c.id, data |-> c.data, rnd |-> rnd, ts |-> ts])
    ELSE log

\* the result of call c as the hooks see it
Outcome(c, rnd, ts) == Apply(c, mockItems, rnd, ts)

\* a direct call resumes and settles
Complete ==
    \E c \in pending :
        /\ micro = <<>>
        /\ Due(c)
        /\ c.src = "direct"
        /\ \E rnd \in (IF c.op = "create" THEN RandomIds ELSE {NoId}),
              ts \in (IF c.op = "create" THEN Clock ELSE {0}) :
                /\ Resume(c, rnd, ts)
                /\ queries' = Aliased(queries, c, Outcome(c, rnd, ts))
                /\ log' = Logged(c, rnd, ts)
        /\ UNCHANGED <<observers, micro, mres>>
        /\ UNCHANGED <<pageVars, sideVars>>

\* 100 ms pass
Tick ==
    /\ micro = <<>>
    /\ pending # {}
    /\ NoneDue
    /\ pending' = { [c EXCEPT !.left = @ - 1] : c \in pending }
    /\ UNCHANGED <<mockItems, nextSeq, last>>
    /\ UNCHANGED cacheVars /\ UNCHANGED <<log, pageVars, sideVars>>

Next ==
    \/ CallList
    \/ CallGet
    \/ CallCreate
    \/ CallUpdate
    \/ CallDelete
    \/ Complete
    \/ Tick

Spec == Init /\ [][Next]_vars

\* the direct use again, with the event loop as it is scheduled: a timer
\* that is due is run, and time passes while none is due
LiveNext ==
    \/ nextSeq < MaxLiveCalls /\ CallList
    \/ nextSeq < MaxLiveCalls /\ CallGet
    \/ nextSeq < MaxLiveCalls /\ CallCreate
    \/ nextSeq < MaxLiveCalls /\ CallUpdate
    \/ nextSeq < MaxLiveCalls /\ CallDelete
    \/ Complete
    \/ Tick

LiveSpec == Init /\ [][LiveNext]_vars /\ WF_vars(Tick) /\ WF_vars(Complete)

(***************************************************************************)
(* Use of the api client through the hooks                                 *)
(***************************************************************************)
State == [q |-> queries, p |-> pending, n |-> nextSeq]

\* a component calling useItems() or useItem(id) mounts
Mount ==
    \E k \in Keys \ observers, staleByTime \in BOOLEAN :
        LET st == useQueryMount(State, k, staleByTime, last) IN
        /\ micro = <<>>
        /\ st.n = nextSeq \/ nextSeq < MaxCalls
        /\ observers' = observers \cup {k}
        /\ queries' = [st.q EXCEPT ![k].exists = TRUE]
        /\ pending' = st.p
        /\ nextSeq' = st.n
        /\ UNCHANGED <<mockItems, last, micro, mres>>
        /\ UNCHANGED <<log, pageVars, sideVars>>

\* it unmounts; a fetch in flight goes on
Unmount ==
    \E k \in observers :
        /\ micro = <<>>
        /\ observers' = observers \ {k}
        /\ UNCHANGED <<mockItems, pending, nextSeq, last, queries, micro, mres>>
        /\ UNCHANGED <<log, pageVars, sideVars>>

\* useCreateItem().mutateAsync(data)
MutateCreate ==
    \E data \in FormInputs :
        /\ Issue(Call("create", NoId, data, "mutation"))
        /\ UNCHANGED cacheVars /\ UNCHANGED <<log, pageVars, sideVars>>

\* useUpdateItem().mutateAsync({ id, data })
MutateUpdate ==
    \E id \in UpdateIds, data \in EditInputs :
        /\ Issue(Call("update", id, data, "mutation"))
        /\ UNCHANGED cacheVars /\ UNCHANGED <<log, pageVars, sideVars>>

\* useDeleteItem().mutateAsync(id)
MutateDelete ==
    \E id \in DeleteIds :
        /\ Issue(Call("delete", id, NoData, "mutation"))
        /\ UNCHANGED cacheVars /\ UNCHANGED <<log, pageVars, sideVars>>

\* the api call of a query function settles: the cache takes the result
FetchSettle ==
    \E c \in pending :
        LET r == Outcome(c, NoId, 0)
            k == KeyOf(c) IN
        /\ micro = <<>>
        /\ Due(c)
        /\ c.src = "query"
        /\ Resume(c, NoId, 0)
        /\ queries' = [queries EXCEPT ![k] = QuerySettled(@, k, c, r)]
        /\ UNCHANGED <<observers, micro, mres>>
        /\ UNCHANGED <<log, pageVars, sideVars>>

\* the api call of a mutation settles: the store is changed (or the error
\* thrown); the callbacks of the hook are promise reactions yet to run
MutationResume ==
    \E c \in pending :
        /\ micro = <<>>
        /\ Due(c)
        /\ c.src = "mutation"
        /\ \E rnd \in (IF c.op = "create" THEN RandomIds ELSE {NoId}),
              ts \in (IF c.op = "create" THEN Clock ELSE {0}) :
                /\ Resume(c, rnd, ts)
                /\ queries' = Aliased(queries, c, Outcome(c, rnd, ts))
                /\ micro' = Append(micro, Settled(c, Outcome(c, rnd, ts)))
                /\ log' = Logged(c, rnd, ts)
        /\ UNCHANGED <<observers, mres>>
        /\ UNCHANGED <<pageVars, sideVars>>

\* the promise reactions run before any other task: onSuccess invalidates,
\* then mutateAsync resolves or rejects
RunMicro ==
    /\ micro # <<>>
    /\ LET m == Head(micro)
           st == SettleMutation(State, m, observers, last) IN
       /\ queries' = st.q
       /\ pending' = st.p
       /\ nextSeq' = st.n
       /\ mres' = [ok |-> m.ok, op |-> m.op, id |-> m.id]
                  @@ (IF m.ok THEN [value |-> m.value] ELSE [error |-> m.error])
    /\ micro' = Tail(micro)
    /\ UNCHANGED <<mockItems, last, observers>>
    /\ UNCHANGED <<log, pageVars, sideVars>>

HookNext ==
    \/ Mount
    \/ Unmount
    \/ MutateCreate
    \/ MutateUpdate
    \/ MutateDelete
    \/ FetchSettle
    \/ MutationResume
    \/ RunMicro
    \/ Tick

\* a further component calling useItems() or useItem(id) mounts while the
\* key has a reader (`observers` holds the keys with at least one reader,
\* Unmount is the last of them leaving)
MountAnother ==
    \E k \in observers, staleByTime \in BOOLEAN :
        LET st == useQueryMount(State, k, staleByTime, last) IN
        /\ micro = <<>>
        /\ st.n = nextSeq \/ nextSeq < MaxCalls
        /\ queries' = st.q
        /\ pending' = st.p
        /\ nextSeq' = st.n
        /\ joined' = IF queries[k].fetch # 0 /\ st.n = nextSeq
                     THEN joined \cup {queries[k].fetch}
                     ELSE joined
        /\ UNCHANGED <<mockItems, last, observers, micro, mres, log, pageVars, sidebarOpen>>

\* readers of the cache mounting one after another, with one kind of
\* mutation to invalidate what they read
ReadNext ==
    \/ Mount
    \/ MountAnother
    \/ MutateDelete
    \/ FetchSettle
    \/ MutationResume
    \/ RunMicro
    \/ Tick

ReadSpec == Init /\ [][ReadNext]_vars

HookSpec == Init /\ [][HookNext]_vars

TypeOK ==
    /\ nextSeq \in 0..(MaxCalls + 2 * MaxCalls)
    /\ \A c \in pending : c.op \in Ops /\ c.left \in 0..delay(c.op)
    /\ Len(micro) <= 1
    /\ observers \subseteq Keys

(***************************************************************************)
(* The pages: ItemsPage (list with delete dialog) and CreateItemPage       *)
(* (form), rendered by the routes of App.tsx inside the ToastProvider      *)
(***************************************************************************)
\* the routes of App.tsx; "home" stands for the pages that use no hook
Routes == {"home", "items", "new"}

\* texts a user types into the form
Names == {"Wi", "Widget"}
Descriptions == {"A widget for tests"}

\* String.length of those texts
Length(s) ==
    CASE s = "" -> 0
      [] s = "Wi" -> 2
      [] s = "Widget" -> 6
      [] s = "A widget for tests" -> 18
      [] s = "Wid" -> 3
      [] s = "<a name of 49 characters>" -> 49
      [] s = "<a name of 50 characters>" -> 50
      [] s = "<a name of 51 characters>" -> 51
      [] s = "A widget." -> 9
      [] s = "A widget.." -> 10
      [] s = "<a description of 199 characters>" -> 199
      [] s = "<a description of 200 characters>" -> 200
      [] s = "<a description of 201 characters>" -> 201

\* ids Math.random().toString(36).substring(7) gives to toasts
ToastIds == {"a"}

\* createItemSchema with 'Wi' accepted as a name: min(2)
createItemSchemaMin2(v) ==
    [name |-> IF Length(v.name) < 2 THEN "Name must be at least 3 characters"
              ELSE IF Length(v.name) > 50 THEN "Name must be less than 50 characters"
              ELSE NoError,
     description |-> IF Length(v.description) < 10
                     THEN "Description must be at least 10 characters"
                     ELSE IF Length(v.description) > 200
                          THEN "Description must be less than 200 characters"
                          ELSE NoError,
     status |-> IF v.status \in {"active", "inactive"} THEN NoError
                ELSE "Please select a status"]

\* createItemSchema through zodResolver: the message of each field, none
\* when the field is valid
createItemSchema(v) ==
    [name |-> IF Length(v.name) < 3 THEN "Name must be at least 3 characters"
              ELSE IF Length(v.name) > 50 THEN "Name must be less than 50 characters"
              ELSE NoError,
     description |-> IF Length(v.description) < 10
                     THEN "Description must be at least 10 characters"
                     ELSE IF Length(v.description) > 200
                          THEN "Description must be less than 200 characters"
                          ELSE NoError,
     status |-> IF v.status \in {"active", "inactive"} THEN NoError
                ELSE "Please select a status"]

NoErrors == [name |-> NoError, description |-> NoError, status |-> NoError]

\* the data handleSubmit passes to onSubmit: the parsed values
formData(f) == [name |-> f.name, description |-> f.description, status |-> f.status]

\* an input changes: before the first submit nothing is validated, after
\* it the changed field is validated again (reValidateMode onChange)
revalidate(f, field) ==
    IF f.isSubmitted
    THEN [f EXCEPT !.errors[field] = createItemSchema(f)[field]]
    ELSE f

\* ToastProvider.toast
toast(ts, id, title, description, variant) ==
    Append(ts, [id |-> id, title |-> title, description |-> description, variant |-> variant])

\* ItemsPage: what the page returns for the state of useItems()
ItemsView ==
    LET e == queries[ITEMS_QUERY_KEY] IN
    IF e.fetch # 0 /\ ~e.hasData THEN "loading"
    ELSE IF e.error THEN "error"
    ELSE "list"

\* the delete dialog is on screen
DialogOpen == route = "items" /\ ItemsView = "list" /\ itemToDelete # NoItem

\* what the pages hold
Page == [route |-> route, itemToDelete |-> itemToDelete, form |-> form, toasts |-> toasts]

\* a handler suspended in `await mutateAsync(...)` of the api call seq
Handler(seq, fn, arg) == [seq |-> seq, fn |-> fn, arg |-> arg, mounted |-> TRUE]

\* handleDelete that closes the dialog and reports success whatever the outcome
handleDeleteIgnoresError(pg, h, m, id) ==
    [pg EXCEPT !.toasts = toast(@, id, "Item deleted",
                                <<h.arg.name, "has been removed">>, "success"),
               !.itemToDelete = IF h.mounted THEN NoItem ELSE @]

\* handleDelete that leaves the dialog open after the delete
handleDeleteKeepsTarget(pg, h, m, id) ==
    IF m.ok
    THEN [pg EXCEPT !.toasts = toast(@, id, "Item deleted",
                                     <<h.arg.name, "has been removed">>, "success")]
    ELSE [pg EXCEPT !.toasts = toast(@, id, "Error", "Failed to delete item", "error")]

\* ItemsPage.handleDelete after `await deleteItem.mutateAsync(...)`: the
\* toast, and on success setItemToDelete(null), which does nothing once
\* the page that ran the handler has unmounted
handleDeleteSettled(pg, h, m, id) ==
    IF m.ok
    THEN [pg EXCEPT !.toasts = toast(@, id, "Item deleted",
                                     <<h.arg.name, "has been removed">>, "success"),
                    !.itemToDelete = IF h.mounted THEN NoItem ELSE @]
    ELSE [pg EXCEPT !.toasts = toast(@, id, "Error", "Failed to delete item", "error")]

\* onSubmit that leaves the form page whatever the outcome
onSubmitAlwaysNavigates(pg, h, m, id) ==
    LET done == [pg EXCEPT !.form = IF h.mounted THEN [@ EXCEPT !.isSubmitted = TRUE] ELSE @] IN
    IF m.ok
    THEN [done EXCEPT !.toasts = toast(@, id, "Item created",
                                       <<h.arg.name, "has been created successfully">>, "success"),
                      !.route = "items"]
    ELSE [done EXCEPT !.toasts = toast(@, id, "Error", "Failed to create item", "error"),
                      !.route = "items"]

\* CreateItemPage.onSubmit after `await createItem.mutateAsync(data)`: the
\* toast, and on success navigate('/items'); handleSubmit then marks the
\* form as submitted
onSubmitSettled(pg, h, m, id) ==
    LET done == [pg EXCEPT !.form = IF h.mounted THEN [@ EXCEPT !.isSubmitted = TRUE] ELSE @] IN
    IF m.ok
    THEN [done EXCEPT !.toasts = toast(@, id, "Item created",
                                       <<h.arg.name, "has been created successfully">>, "success"),
                      !.route = "items"]
    ELSE [done EXCEPT !.toasts = toast(@, id, "Error", "Failed to create item", "error")]

\* the rest of the handler h once its mutateAsync has settled with m
Continue(pg, h, m, id) ==
    IF h.fn = "handleDelete"
    THEN handleDeleteSettled(pg, h, m, id)
    ELSE onSubmitSettled(pg, h, m, id)

\* the cache once the router renders route r instead of route from:
\* ItemsPage calls useItems() when it mounts
Rendered(st, from, r, staleByTime, lst) ==
    IF r = "items" /\ from # "items"
    THEN LET mounted == useQueryMount(st, ITEMS_QUERY_KEY, staleByTime, lst) IN
         [mounted EXCEPT !.q[ITEMS_QUERY_KEY].exists = TRUE]
    ELSE st

\* the observers once the router renders route r
Observing(obs, r) ==
    IF r = "items" THEN obs \cup {ITEMS_QUERY_KEY} ELSE obs \ {ITEMS_QUERY_KEY}

\* the handlers still suspended once a page has unmounted
Unmounted(hs) == { [h EXCEPT !.mounted = FALSE] : h \in hs }

\* a link of the sidebar, the Create button of ItemsPage, Back or Cancel of
\* CreateItemPage: the page shown unmounts (its state is dropped), the
\* page of the route mounts
Navigate ==
    \E r \in Routes \ {route} :
      \E staleByTime \in (IF r = "items" THEN BOOLEAN ELSE {FALSE}) :
        LET st == Rendered(State, route, r, staleByTime, last) IN
        /\ micro = <<>>
        /\ st.n = nextSeq \/ nextSeq < MaxCalls
        /\ route' = r
        /\ observers' = Observing(observers, r)
        /\ queries' = st.q
        /\ pending' = st.p
        /\ nextSeq' = st.n
        /\ itemToDelete' = NoItem
        /\ form' = defaultValues
        /\ handlers' = Unmounted(handlers)
        /\ UNCHANGED <<mockItems, last, micro, mres, log, toasts, sideVars>>

\* the delete icon that removes the record at once, without the dialog
ClickDeleteIconDeletes ==
    \E i \in 1..Len(queries[ITEMS_QUERY_KEY].data) :
        LET item == queries[ITEMS_QUERY_KEY].data[i] IN
        /\ route = "items" /\ ItemsView = "list" /\ itemToDelete = NoItem
        /\ Issue(Call("delete", item.id, NoData, "page"))
        /\ handlers' = handlers \cup {Handler(nextSeq + 1, "handleDelete", item)}
        /\ UNCHANGED cacheVars
        /\ UNCHANGED <<log, route, itemToDelete, form, toasts, sideVars>>

\* the delete icon of a row: setItemToDelete(item); the dialog opens
ClickDeleteIcon ==
    \E i \in 1..Len(queries[ITEMS_QUERY_KEY].data) :
        /\ micro = <<>>
        /\ route = "items" /\ ItemsView = "list" /\ itemToDelete = NoItem
        /\ itemToDelete' = queries[ITEMS_QUERY_KEY].data[i]
        /\ UNCHANGED <<apiVars, cacheVars, log, route, form, handlers, toasts, sideVars>>

\* Cancel, the close button, Escape or a click outside: setItemToDelete(null)
CancelDelete ==
    /\ micro = <<>>
    /\ DialogOpen
    /\ itemToDelete' = NoItem
    /\ UNCHANGED <<apiVars, cacheVars, log, route, form, handlers, toasts, sideVars>>

\* Delete in the dialog: handleDelete runs up to its await
handleDelete ==
    /\ DialogOpen
    /\ Issue(Call("delete", itemToDelete.id, NoData, "page"))
    /\ handlers' = handlers \cup {Handler(nextSeq + 1, "handleDelete", itemToDelete)}
    /\ UNCHANGED cacheVars
    /\ UNCHANGED <<log, route, itemToDelete, form, toasts, sideVars>>

\* the user types a name
TypeName ==
    \E v \in Names \ {form.name} :
        /\ micro = <<>>
        /\ route = "new"
        /\ form' = revalidate([form EXCEPT !.name = v], "name")
        /\ UNCHANGED <<apiVars, cacheVars, log, route, itemToDelete, handlers, toasts, sideVars>>

\* the user types a description
TypeDescription ==
    \E v \in Descriptions \ {form.description} :
        /\ micro = <<>>
        /\ route = "new"
        /\ form' = revalidate([form EXCEPT !.description = v], "description")
        /\ UNCHANGED <<apiVars, cacheVars, log, route, itemToDelete, handlers, toasts, sideVars>>

\* the form is submitted: handleSubmit validates through the resolver and
\* runs onSubmit, up to its await, only when no field has an error
Submit ==
    LET errs == createItemSchema(form) IN
    /\ micro = <<>>
    /\ route = "new"
    /\ IF errs = NoErrors
       THEN /\ Issue(Call("create", NoId, formData(form), "page"))
            /\ handlers' = handlers \cup {Handler(nextSeq + 1, "onSubmit", formData(form))}
            /\ form' = [form EXCEPT !.errors = errs]
       ELSE /\ form' = [form EXCEPT !.errors = errs, !.isSubmitted = TRUE]
            /\ UNCHANGED <<apiVars, handlers>>
    /\ UNCHANGED <<cacheVars, log, route, itemToDelete, toasts, sideVars>>

\* the api call of a page's mutation settles: the store is changed; the
\* callbacks of the hook and the rest of the handler are yet to run
PageResume ==
    \E c \in pending :
        /\ micro = <<>>
        /\ Due(c)
        /\ c.src = "page"
        /\ \E rnd \in (IF c.op = "create" THEN RandomIds ELSE {NoId}),
              ts \in (IF c.op = "create" THEN Clock ELSE {0}) :
                /\ Resume(c, rnd, ts)
                /\ queries' = Aliased(queries, c, Outcome(c, rnd, ts))
                /\ micro' = Append(micro, Settled(c, Outcome(c, rnd, ts)) @@ [seq |-> c.seq])
                /\ log' = Logged(c, rnd, ts)
        /\ UNCHANGED <<observers, mres>>
        /\ UNCHANGED <<pageVars, sideVars>>

\* the promise reactions run: onSuccess of the hook invalidates, mutateAsync
\* settles, the handler that awaited it runs to its end, and the page of a
\* new route is rendered
PageSettle ==
    /\ micro # <<>>
    /\ Head(micro).src = "page"
    /\ \E h \in handlers, id \in ToastIds, staleByTime \in BOOLEAN :
         LET m == Head(micro)
             pg == Continue(Page, h, m, id)
             moved == pg.route # route
             st == Rendered(SettleMutation(State, m, observers, last),
                            route, pg.route, staleByTime, last) IN
         /\ h.seq = m.seq
         /\ queries' = st.q
         /\ pending' = st.p
         /\ nextSeq' = st.n
         /\ observers' = Observing(observers, pg.route)
         /\ route' = pg.route
         /\ itemToDelete' = IF moved THEN NoItem ELSE pg.itemToDelete
         /\ form' = IF moved THEN defaultValues ELSE pg.form
         /\ handlers' = IF moved THEN Unmounted(handlers \ {h}) ELSE handlers \ {h}
         /\ toasts' = pg.toasts
         /\ mres' = [ok |-> m.ok, op |-> m.op, id |-> m.id]
                    @@ (IF m.ok THEN [value |-> m.value] ELSE [error |-> m.error])
    /\ micro' = Tail(micro)
    /\ UNCHANGED <<mockItems, last, log, sideVars>>

PageNext ==
    \/ Navigate
    \/ ClickDeleteIcon
    \/ CancelDelete
    \/ handleDelete
    \/ TypeName
    \/ TypeDescription
    \/ Submit
    \/ FetchSettle
    \/ PageResume
    \/ PageSettle
    \/ Tick

PageSpec == Init /\ [][PageNext]_vars

(***************************************************************************)
(* stores/uiStore.ts: the UI store, and the header button that uses it     *)
(***************************************************************************)
\* the state of the store
useUIStore == [sidebarOpen |-> sidebarOpen]

\* toggleSidebar that only ever closes the sidebar
toggleSidebarCloses(state) == [state EXCEPT !.sidebarOpen = FALSE]

\* set((state) => ({ sidebarOpen: !state.sidebarOpen }))
toggleSidebar(state) == [state EXCEPT !.sidebarOpen = ~state.sidebarOpen]

\* set({ sidebarOpen: open })
setSidebarOpen(state, open) == [state EXCEPT !.sidebarOpen = open]

\* the menu button of the header: onClick={toggleSidebar}
ToggleSidebar ==
    /\ micro = <<>>
    /\ ~DialogOpen
    /\ sidebarOpen' = toggleSidebar(useUIStore).sidebarOpen
    /\ UNCHANGED <<apiVars, cacheVars, log, pageVars, joined>>

\* a caller of setSidebarOpen
SetSidebarOpen ==
    \E open \in BOOLEAN :
        /\ micro = <<>>
        /\ sidebarOpen' = setSidebarOpen(useUIStore, open).sidebarOpen
        /\ UNCHANGED <<apiVars, cacheVars, log, pageVars, joined>>

\* the sidebar used while the items page lists and deletes records
UINext ==
    \/ ToggleSidebar
    \/ SetSidebarOpen
    \/ Navigate
    \/ ClickDeleteIcon
    \/ handleDelete
    \/ FetchSettle
    \/ PageResume
    \/ PageSettle
    \/ Tick

UISpec == Init /\ [][UINext]_vars

(***************************************************************************)
(* components/ui/Toast.tsx: the toast list of the ToastProvider            *)
(***************************************************************************)
\* what the pages pass to toast()
Messages ==
    { [title |-> "Item created", description |-> "Widget has been created successfully",
       variant |-> "success"],
      [title |-> "Item deleted", description |-> "Widget has been removed",
       variant |-> "success"],
      [title |-> "Error", description |-> "Failed to create item", variant |-> "error"] }

\* setToasts((prev) => prev.filter((t) => t.id !== id))
removeToast(ts, id) == SelectSeq(ts, LAMBDA t : t.id # id)

\* the list without the toast at place i
RemoveAt(ts, i) == SubSeq(ts, 1, i - 1) \o SubSeq(ts, i + 1, Len(ts))

\* a component calls toast(): the id is drawn at random
ShowToast ==
    \E id \in RandomIds, msg \in Messages :
        /\ Len(toasts) < MaxToasts
        /\ toasts' = toast(toasts, id, msg.title, msg.description, msg.variant)
        /\ UNCHANGED <<apiVars, cacheVars, log, route, itemToDelete, form, handlers, sideVars>>

\* the toast at place i closes, by its close button or when its 5000 ms
\* are over: onOpenChange(false) calls removeToast(t.id)
CloseToast ==
    \E i \in 1..Len(toasts) :
        /\ toasts' = removeToast(toasts, toasts[i].id)
        /\ UNCHANGED <<apiVars, cacheVars, log, route, itemToDelete, form, handlers, sideVars>>

ToastNext ==
    \/ ShowToast
    \/ CloseToast

ToastSpec == Init /\ [][ToastNext]_vars

(***************************************************************************)
(* The list and the create form over a client whose calls can fail in      *)
(* transport: the mock client never rejects a list or a create, a          *)
(* networked one can                                                       *)
(***************************************************************************)
TransportError == [ok |-> FALSE, error |-> "Network error", items |-> mockItems]

\* the api call of a query function rejects
FetchFault ==
    \E c \in pending :
        LET k == KeyOf(c) IN
        /\ micro = <<>>
        /\ Due(c)
        /\ c.src = "query"
        /\ pending' = pending \ {c}
        /\ last' = Settled(c, TransportError)
        /\ queries' = [queries EXCEPT ![k] = QuerySettled(@, k, c, TransportError)]
        /\ UNCHANGED <<mockItems, nextSeq, observers, micro, mres, log, pageVars, sideVars>>

\* the api call of a page's mutation rejects: the store is not changed
PageFault ==
    \E c \in pending :
        /\ micro = <<>>
        /\ Due(c)
        /\ c.src = "page"
        /\ pending' = pending \ {c}
        /\ last' = Settled(c, TransportError)
        /\ micro' = Append(micro, Settled(c, TransportError) @@ [seq |-> c.seq])
        /\ UNCHANGED <<mockItems, nextSeq, queries, observers, mres, log, pageVars, sideVars>>

FaultNext ==
    \/ Navigate
    \/ TypeName
    \/ TypeDescription
    \/ Submit
    \/ FetchSettle
    \/ PageResume
    \/ PageSettle
    \/ Tick
    \/ FetchFault
    \/ PageFault

FaultSpec == Init /\ [][FaultNext]_vars

\* both pages over that client, each handler run to its end: a user who
\* goes back and forth between the list and the form, types a name the
\* schema accepts, submits what the schema accepts, and confirms every
\* delete dialog; mutations can reject
OutcomeNext ==
    \/ Navigate /\ route' # "home"
    \/ ClickDeleteIcon
    \/ handleDelete
    \/ TypeName /\ createItemSchema(form').name = NoError
    \/ TypeDescription
    \/ Submit /\ handlers' # handlers
    \/ FetchSettle
    \/ PageResume
    \/ PageSettle
    \/ PageFault
    \/ Tick

OutcomeSpec == Init /\ [][OutcomeNext]_vars

(***************************************************************************)
(* pages/CreateItemPage.tsx: the schema on values at its bounds.  The form *)
(* page is shown with the fields filled; the form is submitted.            *)
(***************************************************************************)
SchemaNames ==
    {"", "Wi", "Wid", "<a name of 49 characters>", "<a name of 50 characters>",
     "<a name of 51 characters>"}

SchemaDescriptions ==
    {"", "A widget.", "A widget..", "<a description of 199 characters>",
     "<a description of 200 characters>", "<a description of 201 characters>"}

\* the two options of the select, and no status at all
SchemaStatuses == {"active", "inactive", ""}

SchemaInit ==
    /\ mockItems = SeedItems
    /\ pending = {}
    /\ nextSeq = 0
    /\ last = NoLast
    /\ queries = [k \in Keys |-> NoEntry]
    /\ observers = {}
    /\ micro = <<>>
    /\ mres = [ok |-> TRUE, op |-> "none"]
    /\ log = <<>>
    /\ route = "new"
    /\ itemToDelete = NoItem
    /\ \E n \in SchemaNames, d \in SchemaDescriptions, s \in SchemaStatuses :
           form = [defaultValues EXCEPT !.name = n, !.description = d, !.status = s]
    /\ handlers = {}
    /\ toasts = <<>>
    /\ sidebarOpen = TRUE
    /\ joined = {}

SchemaNext ==
    \/ Submit
    \/ FetchSettle
    \/ PageResume
    \/ PageSettle
    \/ Tick

SchemaSpec == SchemaInit /\ [][SchemaNext]_vars

(***************************************************************************)
(* Properties of the api client                                            *)
(***************************************************************************)
\* call c settles in this step
Done(c) == c \in pending /\ \A d \in pending' : d.seq # c.seq

\* the records of a collection
RecordsOf(items) == { items[i] : i \in 1..Len(items) }

\* positions of a collection holding a record with the id
Positions(items, id) == { i \in 1..Len(items) : items[i].id = id }

\* C1: no two records of the collection have the same id, in every
\* reachable state.
C1_UniqueIds ==
    \A i, j \in 1..Len(mockItems) : i # j => mockItems[i].id # mockItems[j].id

\* C2: a create that completes returns a record whose id no record of the
\* collection had when the record was appended, and the collection then
\* contains the returned record.
C2_CreateFreshId ==
    [][\A c \in pending : (Done(c) /\ c.op = "create") =>
          /\ last'.value.id \notin IdsOf(mockItems)
          /\ last'.value \in RecordsOf(mockItems')]_vars

\* C3: after update(id, partial) succeeds, get(id) on the collection the
\* update left succeeds and returns a record with every field of partial
\* at the given value and every other field as before the update.
C3_UpdateThenGet ==
    [][\A c \in pending : (Done(c) /\ c.op = "update" /\ last'.ok) =>
          LET old == mockItems[findIndex(mockItems, c.id)]
              g == GetOp(mockItems', c.id) IN
          /\ g.ok
          /\ \A f \in DOMAIN c.data : g.value[f] = c.data[f]
          /\ \A f \in (DOMAIN old) \ (DOMAIN c.data) : g.value[f] = old[f]]_vars

\* C4: a get or update that completes when no record has the id rejects
\* with 'Item not found'; when some record has the id it resolves with that
\* record (get: a record of the collection with that id; update: the record
\* now stored at the place of a record that had the id).
C4_NotFoundIffAbsent ==
    [][\A c \in pending : (Done(c) /\ c.op \in {"get", "update"}) =>
          IF c.id \notin IdsOf(mockItems)
          THEN ~last'.ok /\ last'.error = NotFound
          ELSE /\ last'.ok
               /\ c.op = "get" =>
                    last'.value \in RecordsOf(mockItems) /\ last'.value.id = c.id
               /\ c.op = "update" =>
                    \E i \in Positions(mockItems, c.id) : mockItems'[i] = last'.value]_vars

C4_Witness ==
    /\ last.op = "update"
    /\ ~last.ok
    /\ last.id \notin IdsOf(mockItems)
    /\ Len(mockItems) = 2

\* C5: a get or update that rejects leaves the collection as it was: the
\* same records in the same order.
C5_RejectionKeepsCollection ==
    [][\A c \in pending : (Done(c) /\ c.op \in {"get", "update"} /\ ~last'.ok) =>
          mockItems' = mockItems]_vars

C5_Witness ==
    /\ last.op = "update"
    /\ ~last.ok
    /\ last.error = NotFound
    /\ mockItems # SeedItems

\* C6: delete always resolves; it removes exactly the records with the id
\* and keeps the others with their fields and order (so nothing changes
\* when no record has the id); a second delete of the id changes nothing.
C6_DeleteIdempotent ==
    [][\A c \in pending : (Done(c) /\ c.op = "delete") =>
          LET gone == Positions(mockItems, c.id)
              shift(k) == Cardinality({ j \in gone : j < k }) IN
          /\ last'.ok
          /\ Len(mockItems') = Len(mockItems) - Cardinality(gone)
          /\ \A k \in (1..Len(mockItems)) \ gone : mockItems'[k - shift(k)] = mockItems[k]
          /\ (gone = {} => mockItems' = mockItems)
          /\ DeleteOp(mockItems', c.id).items = mockItems']_vars

C6_Witness ==
    /\ last.op = "delete"
    /\ last.ok
    /\ last.id = "1"
    /\ mockItems = <<>>

\* C7 as stated: a get(id) issued after a delete(id) was issued rejects
\* with 'not found', whether the delete had completed or was still pending
\* when the get was issued.
C7_GetAfterDeleteAnyTiming ==
    [][\A c \in pending : (Done(c) /\ c.op = "get" /\ (c.afterDelete \/ c.duringDelete)) =>
          ~last'.ok]_vars

\* C7 amended: a get(id) issued right after a delete(id) has completed
\* rejects with 'Item not found', provided no create or update completes
\* before the get does.
C7_GetAfterAwaitedDelete ==
    [][\A c \in pending : (Done(c) /\ c.op = "get" /\ c.afterDelete /\ c.quiet) =>
          ~last'.ok /\ last'.error = NotFound]_vars

C7_Witness ==
    /\ last.op = "get"
    /\ last.afterDelete
    /\ last.quiet
    /\ last.id = "1"
    /\ ~last.ok

\* C8: a create that completes appends exactly one record, which carries
\* the given name, description and status and is the record returned; every
\* record that was there keeps its fields and its position.
C8_CreateAppends ==
    [][\A c \in pending : (Done(c) /\ c.op = "create") =>
          LET n == Len(mockItems) IN
          /\ Len(mockItems') = n + 1
          /\ \A i \in 1..n : mockItems'[i] = mockItems[i]
          /\ \A f \in DOMAIN c.data : mockItems'[n + 1][f] = c.data[f]
          /\ last'.ok
          /\ last'.value = mockItems'[n + 1]]_vars

C8_Witness ==
    /\ last.op = "create"
    /\ last.data.name = "Widget"
    /\ Len(mockItems) = 3
    /\ mockItems[3].name = "Widget"

\* C20: a list, create or delete that settles resolves, whatever the
\* collection and the input; a call that rejects is a get or an update,
\* its error is 'Item not found', and no record has its id.
C20_OnlyNotFound ==
    [][\A c \in pending :
         Done(c) =>
             /\ c.op \in {"list", "create", "delete"} => last'.ok
             /\ ~last'.ok =>
                    /\ c.op \in {"get", "update"}
                    /\ last'.error = NotFound
                    /\ c.id \notin IdsOf(mockItems)]_vars

C20_Witness ==
    /\ last.op = "get"
    /\ ~last.ok
    /\ last.error = NotFound
    /\ mockItems = <<>>

\* the collection after the logged mutations are applied to items one
\* after another, each to the result of the one before
RECURSIVE Replay(_, _)
Replay(items, l) ==
    IF l = <<>>
    THEN items
    ELSE LET e == Head(l) IN
         Replay(CASE e.op = "create" -> CreateOp(items, e.data, e.rnd, e.ts).items
                  [] e.op = "update" -> UpdateOp(items, e.id, e.data).items
                  [] e.op = "delete" -> DeleteOp(items, e.id).items,
                Tail(l))

\* C14: in every reachable state, whatever calls are still pending and
\* however the completed ones overlapped, the collection is the seed with
\* the completed creates, updates and deletes applied one after another in
\* the order they completed; each completes in one step.
C14_SerialInCompletionOrder ==
    /\ [](mockItems = Replay(SeedItems, log))
    /\ [][\A c \in pending :
             (Done(c) /\ c.op \in {"create", "update", "delete"} /\ last'.ok) =>
                 /\ Len(log') = Len(log) + 1
                 /\ log'[Len(log')].op = c.op
                 /\ pending' \subseteq { [d EXCEPT !.quiet = q] : d \in pending, q \in BOOLEAN }]_vars

\* a create and then an update have completed while a delete issued
\* before one of them completed is still pending
C14_Witness ==
    /\ \E d \in pending : d.op = "delete" /\ ~d.quiet
    /\ Len(log) = 2
    /\ log[1].op = "create"
    /\ log[2].op = "update"
    /\ log[2].data = [name |-> "Renamed", createdAt |-> 77]
    /\ Len(mockItems) = 3
    /\ mockItems[2].name = "Renamed"
    /\ mockItems[3].name = "Widget"

\* C21 as stated: of two creates issued together, either can be the one
\* that takes effect first: when the delay of both has elapsed, each of
\* them can resume next.
C21_EitherOrder ==
    \A c, d \in pending :
        (c.op = "create" /\ d.op = "create" /\ c.left = 0 /\ d.left = 0) => (Due(c) /\ Due(d))

\* C21 amended: a call takes effect while an earlier-issued call is still
\* pending only if its delay is shorter than that call's; calls of the same
\* operation take effect in the order they were issued.
C21_OrderByDelay ==
    [][\A c \in pending :
         Done(c) => \A d \in pending' : d.seq < c.seq => delay(d.op) > delay(c.op)]_vars

\* the delete issued second has taken effect, the create issued first is
\* still pending
C21_Witness ==
    /\ nextSeq = 2
    /\ last.op = "delete"
    /\ log # <<>>
    /\ \E c \in pending : c.seq = 1 /\ c.op = "create"

\* C24: every api call that is pending settles at some later time, whatever
\* other calls are pending or issued meanwhile, and when it settles it has
\* resolved or rejected with 'Item not found'.
C24_EveryCallSettles ==
    /\ \A s \in 1..MaxCalls :
           (\E c \in pending : c.seq = s) ~> (\A c \in pending : c.seq # s)
    /\ [][\A c \in pending : Done(c) => (last'.ok \/ last'.error = NotFound)]_vars

\* a delete and an update issued with it have both settled, the update
\* by rejecting
C24_Witness ==
    /\ nextSeq = 2
    /\ pending = {}
    /\ last.op = "update"
    /\ last.duringDelete
    /\ ~last.ok
    /\ Len(log) = 1

\* C27: an update issued while a record has the id, completing when no
\* record has it any more (a delete of the id has completed meanwhile),
\* rejects with 'Item not found' and leaves the collection and the history
\* of mutations as they were, so the record is not stored again.
C27_UpdateChecksAtCompletion ==
    [][\A c \in pending :
         (Done(c) /\ c.op = "update" /\ c.existed /\ c.id \notin IdsOf(mockItems)) =>
             /\ ~last'.ok
             /\ last'.error = NotFound
             /\ mockItems' = mockItems
             /\ c.id \notin IdsOf(mockItems')
             /\ log' = log]_vars

\* update("2") issued on the seed collection has rejected after the delete
\* of "2", the only other call, completed: the collection is what the
\* delete left
C27_Witness ==
    /\ nextSeq = 2
    /\ pending = {}
    /\ last.op = "update"
    /\ last.existed
    /\ ~last.ok
    /\ last.error = NotFound
    /\ mockItems = <<SeedItems[1]>>
    /\ Len(log) = 1

(***************************************************************************)
(* Properties of the hooks                                                 *)
(***************************************************************************)
\* the entry of the list holds data that is neither stale nor being refetched
FreshItems ==
    /\ queries[ITEMS_QUERY_KEY].hasData
    /\ ~queries[ITEMS_QUERY_KEY].invalidated
    /\ queries[ITEMS_QUERY_KEY].fetch = 0

\* the promise reactions of the settled mutation m run in this step
Handled(m) == micro # <<>> /\ m = Head(micro) /\ micro' = Tail(micro)

\* C9: once the success of a hook mutation has been handled, the ['items']
\* entry is stale or refetching, and whenever the cache holds a list as
\* fresh data that list is the collection as the completed mutations left
\* it: no list that predates a completed mutation is served as fresh.
C9_NoStaleListAsFresh ==
    /\ []((micro = <<>> /\ FreshItems) => queries[ITEMS_QUERY_KEY].data = mockItems)
    /\ [][\A m \in {micro[i] : i \in 1..Len(micro)} :
             (Handled(m) /\ m.ok /\ queries[ITEMS_QUERY_KEY].hasData) =>
                 \/ queries'[ITEMS_QUERY_KEY].invalidated
                 \/ queries'[ITEMS_QUERY_KEY].fetch # 0]_vars

C9_Witness ==
    /\ micro = <<>>
    /\ mres.ok
    /\ mres.op = "create"
    /\ FreshItems
    /\ ~queries[ITEMS_QUERY_KEY].aliased
    /\ mres.value \in RecordsOf(queries[ITEMS_QUERY_KEY].data)

\* C10: when a hook mutation fails, neither the rejection of the api call
\* nor the handling of it changes the cache (no entry is invalidated, no
\* data changes, no fetch starts), and mutateAsync rejects with the error.
C10_FailureKeepsCache ==
    /\ [][\A c \in pending : (Done(c) /\ c.src = "mutation" /\ ~last'.ok) =>
             queries' = queries]_vars
    /\ [][\A m \in {micro[i] : i \in 1..Len(micro)} :
             (Handled(m) /\ ~m.ok) =>
                 /\ queries' = queries
                 /\ pending' = pending
                 /\ ~mres'.ok
                 /\ mres'.error = NotFound
                 /\ mres'.op = m.op
                 /\ mres'.id = m.id]_vars

C10_Witness ==
    /\ micro = <<>>
    /\ ~mres.ok
    /\ mres.op = "update"
    /\ FreshItems
    /\ Len(queries[ITEMS_QUERY_KEY].data) = 1

\* the store change of the settled mutation m is in the collection
Applied(m) ==
    CASE m.op = "create" -> m.value \in RecordsOf(mockItems)
      [] m.op = "update" -> m.value \in RecordsOf(mockItems)
      [] m.op = "delete" -> m.id \notin IdsOf(mockItems)

\* C11: a cache entry is marked stale, or refetched for an invalidation,
\* only in the step that handles a hook mutation which has succeeded and
\* whose change is already in the collection (that step leaves the
\* collection alone); and a list or get that settles returns the whole
\* collection, or a record of it, as it is between two mutations.
C11_InvalidateAfterStoreChange ==
    /\ [][(\E k \in Keys : queries'[k].invalidated /\ ~queries[k].invalidated) =>
             /\ micro # <<>>
             /\ micro' = Tail(micro)
             /\ Head(micro).ok
             /\ Applied(Head(micro))
             /\ mockItems' = mockItems]_vars
    /\ [][\A c \in pending :
             (Done(c) /\ c.op \in {"list", "get"} /\ last'.ok) =>
                 /\ mockItems' = mockItems
                 /\ c.op = "list" => last'.value = mockItems
                 /\ c.op = "get" => last'.value \in RecordsOf(mockItems)]_vars

C11_Witness ==
    /\ micro = <<>>
    /\ mres.ok
    /\ mres.op = "update"
    /\ queries[ITEMS_QUERY_KEY].invalidated
    /\ queries[ItemKey(mres.id)].invalidated
    /\ mres.value \in RecordsOf(mockItems)

\* C12: when the success of a hook mutation is handled, the ['items'] entry
\* is marked stale if it exists, and after an update or delete of id so is
\* the ['items', id] entry if it exists.
C12_TargetsInvalidated ==
    [][\A m \in {micro[i] : i \in 1..Len(micro)} :
         (Handled(m) /\ m.ok) =>
             /\ queries[ITEMS_QUERY_KEY].exists => queries'[ITEMS_QUERY_KEY].invalidated
             /\ \A k \in Keys :
                    (m.op \in {"update", "delete"} /\ k = ItemKey(m.id) /\ queries[k].exists)
                        => queries'[k].invalidated]_vars

C12_Witness ==
    /\ micro = <<>>
    /\ mres.ok
    /\ mres.op = "delete"
    /\ mres.id = "2"
    /\ queries[ItemKey("2")].hasData
    /\ queries[ItemKey("2")].invalidated
    /\ queries[ITEMS_QUERY_KEY].invalidated

\* C13: the data a cache entry holds changes only in a step in which a
\* fetch of that entry settles, and the collection changes only in a step
\* in which a create, update or delete settles.
C13_CacheCopiesReadOnly ==
    /\ [][\A k \in Keys :
             (queries[k].hasData /\ queries'[k].data # queries[k].data) =>
                 \E c \in pending :
                     Done(c) /\ c.src = "query" /\ KeyOf(c) = k /\ queries[k].fetch = c.seq]_vars
    /\ [][mockItems' # mockItems =>
             \E c \in pending : Done(c) /\ c.op \in {"create", "update", "delete"}]_vars


\* C22: while a fetch for a key is in flight, no step other than the
\* refetch of an invalidation issues a further api call for that key, however
\* many readers of the key mount, and the entry keeps waiting for that
\* fetch; when a fetch that further readers joined settles, its result is the
\* entry of the key, which is what every reader of the key is given.
C22_ReadersShareFetch ==
    /\ [][\A k \in Keys :
            (queries[k].fetch # 0 /\ micro = <<>>) =>
                /\ \A c \in pending' :
                       (c.src = "query" /\ KeyOf(c) = k) => c.seq <= nextSeq
                /\ queries'[k].fetch \in {queries[k].fetch, 0}]_vars
    /\ [][\A c \in pending :
            (Done(c) /\ c.seq \in joined /\ queries[KeyOf(c)].fetch = c.seq) =>
                LET r == Outcome(c, NoId, 0)
                    e == queries'[KeyOf(c)] IN
                /\ e.fetch = 0
                /\ IF r.ok THEN e.hasData /\ e.data = r.value ELSE e.error]_vars

\* two readers of ['items'] and one list call ever issued: the second
\* reader joined the fetch of the first, and the fetch has settled
C22_Witness ==
    /\ nextSeq = 1
    /\ 1 \in joined
    /\ pending = {}
    /\ last.op = "list"
    /\ ITEMS_QUERY_KEY \in observers
    /\ queries[ITEMS_QUERY_KEY].hasData
    /\ queries[ITEMS_QUERY_KEY].data = mockItems

(***************************************************************************)
(* Properties of the pages                                                 *)
(***************************************************************************)
\* the api call c is issued in this step
Issued(c) == c \in pending' /\ \A d \in pending : d.seq # c.seq

\* the promise reactions of a settled mutation of kind op run in this step
Settling(op) == micro # <<>> /\ micro' = Tail(micro) /\ Head(micro).op = op

\* C15: the items view starts with no record targeted; a click on a delete
\* icon targets that record of the list and issues no call; a step that
\* drops the target while nothing settles (Cancel, leaving the page) issues
\* no delete call; a delete call is issued only for the record targeted,
\* which stays targeted; and when that call has finished, the view that
\* issued it has no record targeted.
C15_DeleteDialogMachine ==
    /\ itemToDelete = NoItem
    /\ [][(micro = <<>> /\ itemToDelete = NoItem /\ itemToDelete' # NoItem) =>
             /\ route = "items" /\ route' = "items"
             /\ itemToDelete' \in RecordsOf(queries[ITEMS_QUERY_KEY].data)
             /\ pending' = pending]_vars
    /\ [][(micro = <<>> /\ itemToDelete # NoItem /\ itemToDelete' = NoItem) =>
             \A c \in pending' : ~(Issued(c) /\ c.op = "delete")]_vars
    /\ [][\A c \in pending' :
             (Issued(c) /\ c.op = "delete") =>
                 /\ itemToDelete # NoItem
                 /\ c.id = itemToDelete.id
                 /\ itemToDelete' = itemToDelete]_vars
    /\ [][\A h \in handlers :
             (Settling("delete") /\ h.seq = Head(micro).seq /\ h.mounted) =>
                 /\ route' = "items"
                 /\ itemToDelete' = NoItem]_vars

C15_Witness ==
    /\ route = "items"
    /\ itemToDelete = NoItem
    /\ micro = <<>>
    /\ mres.op = "delete"
    /\ mres.id = "1"
    /\ toasts # <<>>
    /\ toasts[Len(toasts)].title = "Item deleted"
    /\ "1" \notin IdsOf(mockItems)

\* C16: a delete call is issued only while the dialog is open, with the id
\* of the record the dialog is open for; a step that sets or drops the
\* target while nothing settles changes neither the collection nor the
\* pending calls; and a record leaves the collection only when a delete
\* call settles that a handleDelete issued for a record of that id.
C16_DeleteOnlyConfirmed ==
    /\ [][\A c \in pending' :
             (Issued(c) /\ c.op = "delete") =>
                 /\ DialogOpen
                 /\ c.id = itemToDelete.id
                 /\ \E h \in handlers' : h.seq = c.seq /\ h.fn = "handleDelete"
                                          /\ h.arg = itemToDelete]_vars
    /\ [][(micro = <<>> /\ itemToDelete' # itemToDelete) =>
             mockItems' = mockItems /\ pending' = pending]_vars
    /\ [][Len(mockItems') < Len(mockItems) =>
             \E c \in pending, h \in handlers :
                 /\ Done(c) /\ c.op = "delete"
                 /\ h.seq = c.seq /\ h.fn = "handleDelete" /\ h.arg.id = c.id]_vars

C16_Witness ==
    /\ DialogOpen
    /\ itemToDelete.id = "2"
    /\ mockItems = SeedItems
    /\ \E c \in pending : c.op = "delete" /\ c.id = "2" /\ c.src = "page"

\* the values of the form break the schema: name of 3 to 50 characters,
\* description of 10 to 200, status active or inactive
Violating(f) ==
    \/ Length(f.name) < 3 \/ Length(f.name) > 50
    \/ Length(f.description) < 10 \/ Length(f.description) > 200
    \/ f.status \notin {"active", "inactive"}

\* C17: while the values of the form break the schema no step issues a
\* create call or starts a handler; the submission that finds them
\* breaking it changes neither the collection nor the pending calls; and
\* once the form has been submitted a field has a message exactly when its
\* value breaks the schema.
C17_ValidationBlocksSubmit ==
    /\ [][(route = "new" /\ Violating(form)) =>
             /\ \A c \in pending' : ~(Issued(c) /\ c.op = "create")
             /\ \A h \in handlers' : \E g \in handlers : g.seq = h.seq]_vars
    /\ [][(micro = <<>> /\ Violating(form) /\ ~form.isSubmitted /\ form'.isSubmitted) =>
             /\ mockItems' = mockItems
             /\ pending' = pending
             /\ formData(form') = formData(form)
             /\ form'.errors # NoErrors]_vars
    /\ []((route = "new" /\ form.isSubmitted) =>
             /\ form.errors.name # NoError <=> (Length(form.name) < 3 \/ Length(form.name) > 50)
             /\ form.errors.description # NoError <=>
                    (Length(form.description) < 10 \/ Length(form.description) > 200)
             /\ form.errors.status # NoError <=> form.status \notin {"active", "inactive"})

C17_Witness ==
    /\ route = "new"
    /\ form.name = "Wi"
    /\ form.description = "A widget for tests"
    /\ form.isSubmitted
    /\ form.errors.name = "Name must be at least 3 characters"
    /\ form.errors.description = NoError
    /\ nextSeq = 0
    /\ mockItems = SeedItems


C28_ClearsOnlyOwnTarget ==
    [][\A h \in handlers :
         (/\ Settling("delete")
          /\ h.seq = Head(micro).seq
          /\ h.mounted
          /\ itemToDelete # NoItem
          /\ itemToDelete.id # h.arg.id) =>
             itemToDelete' = itemToDelete]_vars

\* C23 (as stated): a create or delete issued by a page changes the
\* collection once, when its delay has elapsed, whether or not the page is
\* still mounted; the rest of a handler whose page has unmounted does
\* nothing that shows (no toast, no navigation); and a step that changes
\* the route changes nothing in the collection.
C23_UnmountDiscardsResult ==
    /\ [][\A c \in pending :
            (Done(c) /\ c.src = "page") =>
                \E rnd \in RandomIds \cup {NoId}, ts \in Clock \cup {0} :
                    /\ mockItems' = Apply(c, mockItems, rnd, ts).items
                    /\ Len(log') = Len(log) + 1]_vars
    /\ [][mockItems' # mockItems => \E c \in pending : Done(c)]_vars
    /\ [][\A h \in handlers :
            (/\ micro # <<>>
             /\ micro' = Tail(micro)
             /\ h.seq = Head(micro).seq
             /\ ~h.mounted) =>
                toasts' = toasts /\ route' = route]_vars
    /\ [][route' # route => mockItems' = mockItems]_vars

StatedBounds(f) ==
    /\ Length(f.name) >= 3 /\ Length(f.name) < 50
    /\ Length(f.description) >= 10 /\ Length(f.description) < 200
    /\ f.status \in {"active", "inactive"}

\* C30 (as stated): a submission is accepted, and its create call issued,
\* exactly when the name has at least 3 and less than 50 characters, the
\* description at least 10 and less than 200, and the status is 'active'
\* or 'inactive'.
C30_SchemaBoundsAsStated ==
    /\ [][(\E c \in pending' : Issued(c) /\ c.op = "create") => StatedBounds(form)]_vars
    /\ [][(micro = <<>> /\ route = "new" /\ ~form.isSubmitted /\ form'.isSubmitted) =>
             ~StatedBounds(form)]_vars

(***************************************************************************)
(* Properties of the UI store                                              *)
(***************************************************************************)
\* C25: the sidebar flag starts true; in every state toggleSidebar gives the
\* negation of the flag and two toggles give the flag back, setSidebarOpen(b)
\* gives b and giving b again changes nothing; and a step that changes the
\* flag changes neither the collection, nor a query-cache entry, nor the
\* api calls pending.
C25_SidebarFlag ==
    /\ sidebarOpen = TRUE
    /\ [](/\ toggleSidebar(useUIStore).sidebarOpen = ~sidebarOpen
          /\ toggleSidebar(toggleSidebar(useUIStore)) = useUIStore
          /\ \A b \in BOOLEAN :
                /\ setSidebarOpen(useUIStore, b).sidebarOpen = b
                /\ setSidebarOpen(setSidebarOpen(useUIStore, b), b)
                       = setSidebarOpen(useUIStore, b))
    /\ [][sidebarOpen' # sidebarOpen =>
            /\ sidebarOpen' = ~sidebarOpen
            /\ mockItems' = mockItems
            /\ queries' = queries
            /\ pending' = pending]_vars

\* the sidebar has been closed while the list is cached and a delete is
\* pending
C25_Witness ==
    /\ ~sidebarOpen
    /\ queries[ITEMS_QUERY_KEY].hasData
    /\ \E c \in pending : c.op = "delete" /\ c.left < delay("delete")

(***************************************************************************)
(* Properties of the toasts                                                *)
(***************************************************************************)
\* C26 (the removal as stated): a step that removes from the toast list
\* removes exactly one toast, and the other toasts stay in the list in
\* the same order.
C26_RemovesExactlyThatToast ==
    [][Len(toasts') < Len(toasts) =>
          \E i \in 1..Len(toasts) : toasts' = RemoveAt(toasts, i)]_vars

====
